---------------------------- MODULE Spec2Model ----------------------------
(***************************************************************************)
(* A model of generate_dicom_mri.py (mrsinham/dicomforge): the size parser *)
(* parse_size, the dimension solver calculate_dimensions, the metadata     *)
(* builder generate_metadata, the pixel synthesizers generate_pixel_data   *)
(* and generate_single_image, and the run of main that writes              *)
(* IMG0001..IMGn and the DICOMDIR.                                         *)
(*                                                                         *)
(* Python integers are unbounded and TLC's are 32-bit, so a byte count is  *)
(* kept exactly as a record [kib, rem] standing for 1024 * kib + rem with  *)
(* rem in 0..1023.  Strings are sequences of one-character strings.        *)
(***************************************************************************)
EXTENDS Integers, Sequences, FiniteSets, TLC

VARIABLES
    fn,        \* the function called on its own: "none", "parse_size",
               \* "calculate_dimensions", "generate_pixel_data", "generate_single_image"
    fn_in,     \* its argument record
    fn_pc,     \* "idle", "call" (before the call) or "return" (after it)
    fn_out,    \* what the call returned or raised
    pc,        \* where the run of main stands: "idle", "args", "size", "disk", "dims",
               \* "mkdir", "series", "loop", "index", "done"
    run,       \* 1 for the first run of the script, 2 for a second run with the same arguments
    args,      \* the command line: num_images, total_size, seed
    total_bytes, \* main's total_bytes
    geom,      \* main's (width, height)
    dir_exists,  \* the output directory exists
    files,     \* the files IMG0001.. of the output directory, by instance number
    dicomdir,  \* the DICOMDIR file of the output directory
    study_uid, \* main's study_uid
    series_uid,  \* main's series_uid
    uid_next,  \* the next identifier generate_uid hands out
    py_rng,    \* the state of the generator of module random
    np_rng,    \* the state of the generator of numpy.random
    clock,     \* the wall clock, in seconds
    idx,       \* the loop variable i of the generation loop
    made,      \* the instances this run generated, in generation order
    prev_pixels, \* the pixels the first run generated, frame by frame
    fileset,   \* the instance numbers added to the FileSet
    exit_code, \* the exit code of the process, NoExit while it runs
    out        \* what the run reported on stdout and stderr

fnvars == <<fn, fn_in, fn_pc, fn_out>>

mainvars == <<pc, run, args, total_bytes, geom, dir_exists, files, dicomdir, study_uid,
              series_uid, uid_next, py_rng, np_rng, clock, idx, made, prev_pixels,
              fileset, exit_code, out>>

vars == <<fnvars, mainvars>>

-----------------------------------------------------------------------------
(* Bounds of the model.                                                    *)

\* longest integer part of a generated size string, in digits
MaxIntDigits == 2
\* longest fractional part of a generated size string, in digits
MaxFracDigits == 1
\* the generated frame counts of the dimension solver are 1..MaxFrames
MaxFrames == 3
\* the generated budgets sit around the thresholds of the sides 128 * j, j in 0..MaxSideTiles
MaxSideTiles == 9
\* --num-images is drawn from 0..MaxImages
MaxImages == 2
\* --seed is absent or drawn from 0..MaxSeed
MaxSeed == 1
\* a generator draws numbers in 0..RngMod-1
RngMod == 3
\* the pixel synthesizers called on their own are called again while fewer
\* than MaxDrawn numbers were drawn since the last seeding
MaxDrawn == 8
\* the wall clock runs from 0 to MaxClock seconds
MaxClock == 1

-----------------------------------------------------------------------------
(* Byte counts.                                                            *)

KiB == 1024

Bytes(k, r) == [kib |-> k, rem |-> r]

\* total_bytes <= 0 (main, line 321)
BytesLeqZero(b) == b.kib < 0 \/ (b.kib = 0 /\ b.rem = 0)

-----------------------------------------------------------------------------
(* Characters and strings.                                                 *)

AsciiDigits == {"0", "1", "2", "3", "4", "5", "6", "7", "8", "9"}

\* the decimal digits outside ASCII (Unicode 14, category Nd), each one
\* character written by its code point, script by script from its zero to
\* its nine: "U+0663" is ARABIC-INDIC DIGIT THREE
UnicodeDigitRuns ==
    {
      <<"U+0660", "U+0661", "U+0662", "U+0663", "U+0664",
        "U+0665", "U+0666", "U+0667", "U+0668", "U+0669">>,
      <<"U+06F0", "U+06F1", "U+06F2", "U+06F3", "U+06F4",
        "U+06F5", "U+06F6", "U+06F7", "U+06F8", "U+06F9">>,
      <<"U+07C0", "U+07C1", "U+07C2", "U+07C3", "U+07C4",
        "U+07C5", "U+07C6", "U+07C7", "U+07C8", "U+07C9">>,
      <<"U+0966", "U+0967", "U+0968", "U+0969", "U+096A",
        "U+096B", "U+096C", "U+096D", "U+096E", "U+096F">>,
      <<"U+09E6", "U+09E7", "U+09E8", "U+09E9", "U+09EA",
        "U+09EB", "U+09EC", "U+09ED", "U+09EE", "U+09EF">>,
      <<"U+0A66", "U+0A67", "U+0A68", "U+0A69", "U+0A6A",
        "U+0A6B", "U+0A6C", "U+0A6D", "U+0A6E", "U+0A6F">>,
      <<"U+0AE6", "U+0AE7", "U+0AE8", "U+0AE9", "U+0AEA",
        "U+0AEB", "U+0AEC", "U+0AED", "U+0AEE", "U+0AEF">>,
      <<"U+0B66", "U+0B67", "U+0B68", "U+0B69", "U+0B6A",
        "U+0B6B", "U+0B6C", "U+0B6D", "U+0B6E", "U+0B6F">>,
      <<"U+0BE6", "U+0BE7", "U+0BE8", "U+0BE9", "U+0BEA",
        "U+0BEB", "U+0BEC", "U+0BED", "U+0BEE", "U+0BEF">>,
      <<"U+0C66", "U+0C67", "U+0C68", "U+0C69", "U+0C6A",
        "U+0C6B", "U+0C6C", "U+0C6D", "U+0C6E", "U+0C6F">>,
      <<"U+0CE6", "U+0CE7", "U+0CE8", "U+0CE9", "U+0CEA",
        "U+0CEB", "U+0CEC", "U+0CED", "U+0CEE", "U+0CEF">>,
      <<"U+0D66", "U+0D67", "U+0D68", "U+0D69", "U+0D6A",
        "U+0D6B", "U+0D6C", "U+0D6D", "U+0D6E", "U+0D6F">>,
      <<"U+0DE6", "U+0DE7", "U+0DE8", "U+0DE9", "U+0DEA",
        "U+0DEB", "U+0DEC", "U+0DED", "U+0DEE", "U+0DEF">>,
      <<"U+0E50", "U+0E51", "U+0E52", "U+0E53", "U+0E54",
        "U+0E55", "U+0E56", "U+0E57", "U+0E58", "U+0E59">>,
      <<"U+0ED0", "U+0ED1", "U+0ED2", "U+0ED3", "U+0ED4",
        "U+0ED5", "U+0ED6", "U+0ED7", "U+0ED8", "U+0ED9">>,
      <<"U+0F20", "U+0F21", "U+0F22", "U+0F23", "U+0F24",
        "U+0F25", "U+0F26", "U+0F27", "U+0F28", "U+0F29">>,
      <<"U+1040", "U+1041", "U+1042", "U+1043", "U+1044",
        "U+1045", "U+1046", "U+1047", "U+1048", "U+1049">>,
      <<"U+1090", "U+1091", "U+1092", "U+1093", "U+1094",
        "U+1095", "U+1096", "U+1097", "U+1098", "U+1099">>,
      <<"U+17E0", "U+17E1", "U+17E2", "U+17E3", "U+17E4",
        "U+17E5", "U+17E6", "U+17E7", "U+17E8", "U+17E9">>,
      <<"U+1810", "U+1811", "U+1812", "U+1813", "U+1814",
        "U+1815", "U+1816", "U+1817", "U+1818", "U+1819">>,
      <<"U+1946", "U+1947", "U+1948", "U+1949", "U+194A",
        "U+194B", "U+194C", "U+194D", "U+194E", "U+194F">>,
      <<"U+19D0", "U+19D1", "U+19D2", "U+19D3", "U+19D4",
        "U+19D5", "U+19D6", "U+19D7", "U+19D8", "U+19D9">>,
      <<"U+1A80", "U+1A81", "U+1A82", "U+1A83", "U+1A84",
        "U+1A85", "U+1A86", "U+1A87", "U+1A88", "U+1A89">>,
      <<"U+1A90", "U+1A91", "U+1A92", "U+1A93", "U+1A94",
        "U+1A95", "U+1A96", "U+1A97", "U+1A98", "U+1A99">>,
      <<"U+1B50", "U+1B51", "U+1B52", "U+1B53", "U+1B54",
        "U+1B55", "U+1B56", "U+1B57", "U+1B58", "U+1B59">>,
      <<"U+1BB0", "U+1BB1", "U+1BB2", "U+1BB3", "U+1BB4",
        "U+1BB5", "U+1BB6", "U+1BB7", "U+1BB8", "U+1BB9">>,
      <<"U+1C40", "U+1C41", "U+1C42", "U+1C43", "U+1C44",
        "U+1C45", "U+1C46", "U+1C47", "U+1C48", "U+1C49">>,
      <<"U+1C50", "U+1C51", "U+1C52", "U+1C53", "U+1C54",
        "U+1C55", "U+1C56", "U+1C57", "U+1C58", "U+1C59">>,
      <<"U+A620", "U+A621", "U+A622", "U+A623", "U+A624",
        "U+A625", "U+A626", "U+A627", "U+A628", "U+A629">>,
      <<"U+A8D0", "U+A8D1", "U+A8D2", "U+A8D3", "U+A8D4",
        "U+A8D5", "U+A8D6", "U+A8D7", "U+A8D8", "U+A8D9">>,
      <<"U+A900", "U+A901", "U+A902", "U+A903", "U+A904",
        "U+A905", "U+A906", "U+A907", "U+A908", "U+A909">>,
      <<"U+A9D0", "U+A9D1", "U+A9D2", "U+A9D3", "U+A9D4",
        "U+A9D5", "U+A9D6", "U+A9D7", "U+A9D8", "U+A9D9">>,
      <<"U+A9F0", "U+A9F1", "U+A9F2", "U+A9F3", "U+A9F4",
        "U+A9F5", "U+A9F6", "U+A9F7", "U+A9F8", "U+A9F9">>,
      <<"U+AA50", "U+AA51", "U+AA52", "U+AA53", "U+AA54",
        "U+AA55", "U+AA56", "U+AA57", "U+AA58", "U+AA59">>,
      <<"U+ABF0", "U+ABF1", "U+ABF2", "U+ABF3", "U+ABF4",
        "U+ABF5", "U+ABF6", "U+ABF7", "U+ABF8", "U+ABF9">>,
      <<"U+FF10", "U+FF11", "U+FF12", "U+FF13", "U+FF14",
        "U+FF15", "U+FF16", "U+FF17", "U+FF18", "U+FF19">>,
      <<"U+104A0", "U+104A1", "U+104A2", "U+104A3", "U+104A4",
        "U+104A5", "U+104A6", "U+104A7", "U+104A8", "U+104A9">>,
      <<"U+10D30", "U+10D31", "U+10D32", "U+10D33", "U+10D34",
        "U+10D35", "U+10D36", "U+10D37", "U+10D38", "U+10D39">>,
      <<"U+11066", "U+11067", "U+11068", "U+11069", "U+1106A",
        "U+1106B", "U+1106C", "U+1106D", "U+1106E", "U+1106F">>,
      <<"U+110F0", "U+110F1", "U+110F2", "U+110F3", "U+110F4",
        "U+110F5", "U+110F6", "U+110F7", "U+110F8", "U+110F9">>,
      <<"U+11136", "U+11137", "U+11138", "U+11139", "U+1113A",
        "U+1113B", "U+1113C", "U+1113D", "U+1113E", "U+1113F">>,
      <<"U+111D0", "U+111D1", "U+111D2", "U+111D3", "U+111D4",
        "U+111D5", "U+111D6", "U+111D7", "U+111D8", "U+111D9">>,
      <<"U+112F0", "U+112F1", "U+112F2", "U+112F3", "U+112F4",
        "U+112F5", "U+112F6", "U+112F7", "U+112F8", "U+112F9">>,
      <<"U+11450", "U+11451", "U+11452", "U+11453", "U+11454",
        "U+11455", "U+11456", "U+11457", "U+11458", "U+11459">>,
      <<"U+114D0", "U+114D1", "U+114D2", "U+114D3", "U+114D4",
        "U+114D5", "U+114D6", "U+114D7", "U+114D8", "U+114D9">>,
      <<"U+11650", "U+11651", "U+11652", "U+11653", "U+11654",
        "U+11655", "U+11656", "U+11657", "U+11658", "U+11659">>,
      <<"U+116C0", "U+116C1", "U+116C2", "U+116C3", "U+116C4",
        "U+116C5", "U+116C6", "U+116C7", "U+116C8", "U+116C9">>,
      <<"U+11730", "U+11731", "U+11732", "U+11733", "U+11734",
        "U+11735", "U+11736", "U+11737", "U+11738", "U+11739">>,
      <<"U+118E0", "U+118E1", "U+118E2", "U+118E3", "U+118E4",
        "U+118E5", "U+118E6", "U+118E7", "U+118E8", "U+118E9">>,
      <<"U+11950", "U+11951", "U+11952", "U+11953", "U+11954",
        "U+11955", "U+11956", "U+11957", "U+11958", "U+11959">>,
      <<"U+11C50", "U+11C51", "U+11C52", "U+11C53", "U+11C54",
        "U+11C55", "U+11C56", "U+11C57", "U+11C58", "U+11C59">>,
      <<"U+11D50", "U+11D51", "U+11D52", "U+11D53", "U+11D54",
        "U+11D55", "U+11D56", "U+11D57", "U+11D58", "U+11D59">>,
      <<"U+11DA0", "U+11DA1", "U+11DA2", "U+11DA3", "U+11DA4",
        "U+11DA5", "U+11DA6", "U+11DA7", "U+11DA8", "U+11DA9">>,
      <<"U+16A60", "U+16A61", "U+16A62", "U+16A63", "U+16A64",
        "U+16A65", "U+16A66", "U+16A67", "U+16A68", "U+16A69">>,
      <<"U+16AC0", "U+16AC1", "U+16AC2", "U+16AC3", "U+16AC4",
        "U+16AC5", "U+16AC6", "U+16AC7", "U+16AC8", "U+16AC9">>,
      <<"U+16B50", "U+16B51", "U+16B52", "U+16B53", "U+16B54",
        "U+16B55", "U+16B56", "U+16B57", "U+16B58", "U+16B59">>,
      <<"U+1D7CE", "U+1D7CF", "U+1D7D0", "U+1D7D1", "U+1D7D2",
        "U+1D7D3", "U+1D7D4", "U+1D7D5", "U+1D7D6", "U+1D7D7">>,
      <<"U+1D7D8", "U+1D7D9", "U+1D7DA", "U+1D7DB", "U+1D7DC",
        "U+1D7DD", "U+1D7DE", "U+1D7DF", "U+1D7E0", "U+1D7E1">>,
      <<"U+1D7E2", "U+1D7E3", "U+1D7E4", "U+1D7E5", "U+1D7E6",
        "U+1D7E7", "U+1D7E8", "U+1D7E9", "U+1D7EA", "U+1D7EB">>,
      <<"U+1D7EC", "U+1D7ED", "U+1D7EE", "U+1D7EF", "U+1D7F0",
        "U+1D7F1", "U+1D7F2", "U+1D7F3", "U+1D7F4", "U+1D7F5">>,
      <<"U+1D7F6", "U+1D7F7", "U+1D7F8", "U+1D7F9", "U+1D7FA",
        "U+1D7FB", "U+1D7FC", "U+1D7FD", "U+1D7FE", "U+1D7FF">>,
      <<"U+1E140", "U+1E141", "U+1E142", "U+1E143", "U+1E144",
        "U+1E145", "U+1E146", "U+1E147", "U+1E148", "U+1E149">>,
      <<"U+1E2F0", "U+1E2F1", "U+1E2F2", "U+1E2F3", "U+1E2F4",
        "U+1E2F5", "U+1E2F6", "U+1E2F7", "U+1E2F8", "U+1E2F9">>,
      <<"U+1E950", "U+1E951", "U+1E952", "U+1E953", "U+1E954",
        "U+1E955", "U+1E956", "U+1E957", "U+1E958", "U+1E959">>,
      <<"U+1FBF0", "U+1FBF1", "U+1FBF2", "U+1FBF3", "U+1FBF4",
        "U+1FBF5", "U+1FBF6", "U+1FBF7", "U+1FBF8", "U+1FBF9">>
    }

UnicodeDigits == UNION {{ten[i] : i \in 1..10} : ten \in UnicodeDigitRuns}

\* what \d matches in a str pattern without re.ASCII (line 34): every
\* Unicode decimal digit
Digits == AsciiDigits \cup UnicodeDigits

\* the digits the generated inputs are built from
InputDigits == {"0", "1", "5", "9", "U+0663"}

\* the value float() gives a decimal digit (line 40)
DigitVal(c) ==
    CASE c = "0" -> 0 [] c = "1" -> 1 [] c = "2" -> 2 [] c = "3" -> 3
      [] c = "4" -> 4 [] c = "5" -> 5 [] c = "6" -> 6 [] c = "7" -> 7
      [] c = "8" -> 8 [] c = "9" -> 9
      [] OTHER -> (CHOOSE i \in 1..10 : \E ten \in UnicodeDigitRuns : ten[i] = c) - 1

\* str.upper() on one character of the model's alphabet
UpperChar(c) ==
    CASE c = "a" -> "A" [] c = "b" -> "B" [] c = "d" -> "D" [] c = "e" -> "E"
      [] c = "g" -> "G" [] c = "i" -> "I" [] c = "k" -> "K" [] c = "l" -> "L"
      [] c = "m" -> "M" [] c = "n" -> "N" [] c = "t" -> "T" [] c = "v" -> "V"
      [] OTHER -> c

\* size_str.upper() (line 35)
NoUpper(s) == s
Upper(s) == [i \in 1..Len(s) |-> UpperChar(s[i])]

AllDigits(s) == Len(s) >= 1 /\ \A i \in 1..Len(s) : s[i] \in Digits

RECURSIVE DigitsValue(_)
\* the number a digit string denotes
DigitsValue(s) ==
    IF Len(s) = 0 THEN 0
    ELSE 10 * DigitsValue(SubSeq(s, 1, Len(s) - 1)) + DigitVal(s[Len(s)])

RECURSIVE Pow10(_)
Pow10(m) == IF m = 0 THEN 1 ELSE 10 * Pow10(m - 1)

\* the position of the first "." of s, or 0
DotPos(s) ==
    IF \E i \in 1..Len(s) : s[i] = "."
    THEN CHOOSE i \in 1..Len(s) : s[i] = "." /\ \A j \in 1..(i - 1) : s[j] # "."
    ELSE 0

\* \d+(?:\.\d+)? matches the whole of s
IsNumber(s) ==
    LET d == DotPos(s) IN
    IF d = 0 THEN AllDigits(s)
    ELSE /\ AllDigits(SubSeq(s, 1, d - 1))
         /\ AllDigits(SubSeq(s, d + 1, Len(s)))

Units == {<<"K", "B">>, <<"M", "B">>, <<"G", "B">>}

\* ^(\d+(?:\.\d+)?)(KB|MB|GB) matches the whole of t
FullMatch(t) ==
    /\ Len(t) >= 3
    /\ SubSeq(t, Len(t) - 1, Len(t)) \in Units
    /\ IsNumber(SubSeq(t, 1, Len(t) - 2))

\* Python's $ matches at the end of the string and also just before a
\* newline that ends the string.
DollarEnds(s) ==
    IF Len(s) >= 1 /\ s[Len(s)] = "\n"
    THEN {s, SubSeq(s, 1, Len(s) - 1)}
    ELSE {s}

\* re.match(pattern, s) (lines 34-35): the matched text, or <<>> for None
ReMatch(s) ==
    LET hits == {t \in DollarEnds(s) : FullMatch(t)} IN
    IF hits = {} THEN <<>> ELSE CHOOSE t \in hits : TRUE

\* multipliers[unit] as a power of 1024 (lines 43-47)
UnitExp(u) ==
    CASE u = <<"K", "B">> -> 1
      [] u = <<"M", "B">> -> 2
      [] u = <<"G", "B">> -> 3

\* one step of the long division of r * 1024^j by d
LongDiv(r, d) == [q |-> (r * KiB) \div d, r |-> (r * KiB) % d]

RECURSIVE FloorLog2(_)
\* the largest j with 2^j <= x, for x >= 1
FloorLog2(x) == IF x < 2 THEN 0 ELSE 1 + FloorLog2(x \div 2)

RECURSIVE Doublings(_, _)
\* the least j with f * 2^j >= d, for 0 < f
Doublings(f, d) == IF f >= d THEN 0 ELSE 1 + Doublings(2 * f, d)

\* the bits of a double's significand
FloatBits == 53

\* the exponent of float(value), value = ip + fp / 10^m > 0: the E with
\* 2^E <= value < 2^(E + 1)
BinaryExponent(ip, fp, m) ==
    IF ip >= 1 THEN FloorLog2(ip) ELSE 0 - Doublings(fp, Pow10(m))

\* the next byte count
NextByte(b) == IF b.rem = KiB - 1 THEN Bytes(b.kib + 1, 0) ELSE Bytes(b.kib, b.rem + 1)

\* float(value) (line 40) is the double nearest to the decimal, ties to
\* even, a multiple of 2^(E - 52); its product by 1024^e (line 52) is exact
\* and a multiple of 2^-k with k = 52 - E - 10 * e.  With the exact product
\* value * 1024^e = Q + r / 10^m, Q its floor, the double's product reaches
\* Q + 1 when r / 10^m >= 1 - 2^-(k + 1), that is 2^(k + 1) <= 10^m / (10^m - r).
\* The byte counts of the model are below 2^41, so k >= 1.
FloatRoundsUp(ip, fp, m, e, r) ==
    /\ r > 0
    /\ FloorLog2(Pow10(m) \div (Pow10(m) - r))
          >= FloatBits - BinaryExponent(ip, fp, m) - 10 * e

\* int(value * multipliers[unit]) (lines 40, 52) for value = ip + fp / 10^m and
\* the multiplier 1024^e: the floor of the exact product by long division,
\* and one more where float(value) lies above the decimal and its product
\* is the next integer
TruncProduct(ip, fp, m, e) ==
    LET d  == Pow10(m)
        s1 == LongDiv(fp, d)
        s2 == LongDiv(s1.r, d)
        s3 == LongDiv(s2.r, d)
        exact == CASE e = 1 -> [b |-> Bytes(ip, s1.q), r |-> s1.r]
                   [] e = 2 -> [b |-> Bytes(ip * KiB + s1.q, s2.q), r |-> s2.r]
                   [] e = 3 -> [b |-> Bytes(ip * KiB * KiB + s1.q * KiB + s2.q, s3.q),
                                r |-> s3.r]
    IN  IF FloatRoundsUp(ip, fp, m, e, exact.r) THEN NextByte(exact.b) ELSE exact.b

ValueError(msg) == [ok |-> FALSE, exc |-> "ValueError", msg |-> msg]

\* parse_size (lines 21-52)
parse_size(size_str) ==
    LET t == ReMatch(Upper(size_str)) IN
    IF t = <<>> THEN ValueError("Format invalide")
    ELSE LET num  == SubSeq(t, 1, Len(t) - 2)
             unit == SubSeq(t, Len(t) - 1, Len(t))
             d    == DotPos(num)
             ip   == IF d = 0 THEN DigitsValue(num)
                     ELSE DigitsValue(SubSeq(num, 1, d - 1))
             fs   == IF d = 0 THEN <<>> ELSE SubSeq(num, d + 1, Len(num))
         IN  [ok |-> TRUE,
              bytes |-> TruncProduct(ip, DigitsValue(fs), Len(fs), UnitExp(unit))]

-----------------------------------------------------------------------------
(* The dimension solver.                                                   *)

\* a <= b and a > b on byte counts
LeqBytes(a, b) == a.kib < b.kib \/ (a.kib = b.kib /\ a.rem <= b.rem)
GreaterBytes(a, b) == ~LeqBytes(a, b)

\* metadata_overhead = 100 * 1024 (line 67), in KiB
MetadataOverheadKiB == 100

\* 2**32 - 1 in KiB and the 10 MiB margin in MiB (line 75)
U32MaxKiB == 4194303
MarginMiB == 10

\* MAX_PIXEL_DATA_SIZE = (2**32 - 1) - (10 * 1024 * 1024) (line 75)
NoMarginMaxPixelDataSize == Bytes(U32MaxKiB, KiB - 1)
MAX_PIXEL_DATA_SIZE == Bytes(U32MaxKiB - MarginMiB * KiB, KiB - 1)

\* bytes_per_pixel = 2 (line 83)
BytesPerPixel == 2

\* the largest integer whose square is a 32-bit pixel count
SqrtCeiling == 46340

RECURSIVE SqrtSearch(_, _, _)
\* the r in lo..hi with r * r <= x < (r + 1) * (r + 1)
SqrtSearch(x, lo, hi) ==
    IF lo = hi THEN lo
    ELSE LET mid == (lo + hi + 1) \div 2 IN
         IF mid * mid <= x THEN SqrtSearch(x, mid, hi)
         ELSE SqrtSearch(x, lo, mid - 1)

\* int(math.sqrt(x)) for 0 <= x < 2^31 (line 88): the double nearest the root
\* of such an x truncates to the integer square root
IntSqrt(x) == SqrtSearch(x, 0, SqrtCeiling)

\* lines 90-95: round down to a multiple of 256, or of 128 below 256
RoundNearest(dim) ==
    IF dim >= 256 THEN ((dim + 128) \div 256) * 256
    ELSE IF dim >= 128 THEN ((dim + 64) \div 128) * 128
    ELSE dim
RoundDown(dim) ==
    IF dim >= 256 THEN (dim \div 256) * 256
    ELSE IF dim >= 128 THEN (dim \div 128) * 128
    ELSE dim

\* dim = max(dim, 128) (line 98)
MinDim == 128
EnsureMinimum(dim) == IF dim > MinDim THEN dim ELSE MinDim

\* available_bytes after lines 70-80
WrapAvailable(total_size_bytes) ==
    Bytes((total_size_bytes.kib - MetadataOverheadKiB) % (U32MaxKiB + 1),
          total_size_bytes.rem)
Available(total_size_bytes) ==
    LET a == Bytes(total_size_bytes.kib - MetadataOverheadKiB, total_size_bytes.rem)
    IN  IF GreaterBytes(a, MAX_PIXEL_DATA_SIZE) THEN MAX_PIXEL_DATA_SIZE ELSE a

\* the warning of line 80 is printed
ClampWarned(total_size_bytes) ==
    GreaterBytes(Bytes(total_size_bytes.kib - MetadataOverheadKiB, total_size_bytes.rem),
                 MAX_PIXEL_DATA_SIZE)

\* pixels_per_frame (lines 84-85); // floors, also below zero
PixelsPerFrame(total_size_bytes, num_images) ==
    LET a == Available(total_size_bytes)
        total_pixels == (KiB \div BytesPerPixel) * a.kib + a.rem \div BytesPerPixel
    IN  total_pixels \div num_images

\* calculate_dimensions (lines 55-100); math.sqrt raises ValueError below zero
calculate_dimensions(total_size_bytes, num_images) ==
    LET ppf == PixelsPerFrame(total_size_bytes, num_images) IN
    IF ppf < 0 THEN ValueError("math domain error")
    ELSE LET dim == EnsureMinimum(RoundDown(IntSqrt(ppf))) IN
         [ok |-> TRUE, width |-> dim, height |-> dim,
          warned |-> ClampWarned(total_size_bytes)]

-----------------------------------------------------------------------------
(* The inputs of the size parser.                                          *)

DigitSeqs(n) == UNION {[1..k -> InputDigits] : k \in 1..n}

FracParts == {<<>>} \cup {<<".">> \o f : f \in DigitSeqs(MaxFracDigits)}

UnitTexts ==
    {<<a, b>> : a \in {"k", "K", "m", "M", "g", "G", "t", "T"}, b \in {"b", "B"}}
        \cup {<<>>, <<"B">>, <<"K">>}

Tails == {<<>>, <<"\n">>, <<" ">>}

\* the strings of the repository's tests (tests/test_generate_dicom_mri.py 7-31)
TestStrings ==
    { <<"1", "0", "0", "K", "B">>, <<"5", "0", "M", "B">>,
      <<"4", ".", "5", "G", "B">>, <<"1", "0", "m", "b">>,
      <<"1", "0", "M", "b">>, <<"1", "0", "M", "B">>,
      <<"i", "n", "v", "a", "l", "i", "d">>, <<"1", "0", "0", "T", "B">> }

Malformed ==
    { <<>>, <<"M", "B">>, <<".", "5", "M", "B">>, <<"1", ".", "M", "B">>,
      <<"1", ".", ".", "5", "M", "B">>, <<"1", ".", "5", ".", "1", "M", "B">>,
      <<"-", "1", "M", "B">>, <<" ", "1", "M", "B">>, <<"1", " ", "M", "B">>,
      <<"1", "e", "1", "K", "B">>, <<"\n", "1", "M", "B">>,
      <<"1", "M", "B", "\n", "\n">> }

\* sizes written with digits outside ASCII
UnicodeSizes ==
    { <<"U+0663", "M", "B">>, <<"U+FF11", "K", "B">>, <<"1", "U+0662", "K", "B">>,
      <<"U+0663", ".", "U+0662", "g", "b">>, <<"U+0661", "M", "B">>,
      <<"U+1D7CE", "U+1FBF9", "K", "B">> }

\* sizes whose nearest double lies above the decimal, its product an integer:
\* 1054.027489GB, 2040.793114gb, and 1054.027488GB, which has no such double
RoundingSizes ==
    { <<"1", "0", "5", "4", ".", "0", "2", "7", "4", "8", "9", "G", "B">>,
      <<"2", "0", "4", "0", ".", "7", "9", "3", "1", "1", "4", "g", "b">>,
      <<"1", "0", "5", "4", ".", "0", "2", "7", "4", "8", "8", "G", "B">> }

SizeStrings ==
    {i \o f \o u \o t : i \in DigitSeqs(MaxIntDigits), f \in FracParts,
                        u \in UnitTexts, t \in Tails}
        \cup TestStrings \cup Malformed \cup UnicodeSizes \cup RoundingSizes

NoResult == [ok |-> FALSE, exc |-> "none", msg |-> ""]

-----------------------------------------------------------------------------
(* The generators of module random and of numpy.random, and generate_uid.  *)
(* The state of a generator is where its stream started (origin: the seed, *)
(* or a negative number for a state taken from the system) and how many    *)
(* numbers were drawn from it since (drawn); a state never comes back.     *)
(* The j-th next draw from a state is a number in 0..RngMod-1.             *)

Rng(o, d) == [origin |-> o, drawn |-> d]

\* the states a generator may hold when the module is imported, taken from
\* the system's entropy: two of them, neither the state a seed leaves
SystemRngs == {Rng(-1, 0), Rng(-2, 0)}

Draw(rng, j) == (rng.origin + rng.drawn + j) % RngMod

\* the state after n more draws
Advance(rng, n) == Rng(rng.origin, rng.drawn + n)

\* random.randint(a, b)
RandInt(a, b, d) == a + (d % (b - a + 1))

\* random.choice(seq)
Choice(seq, d) == seq[(d % Len(seq)) + 1]

\* random.uniform(a, b) = a + (b - a) * random(), in thousandths
Uniform(a, b, d) == a + ((b - a) * d) \div RngMod

\* random.seed(seed) (line 360) and np.random.seed(seed) (line 359)
SeedPy(seed, rng) == Rng(seed, 0)
NpSeedForgotten(seed, rng) == rng
SeedNp(seed, rng) == Rng(seed, 0)

\* no UID: the None of generate_metadata's study_uid and series_uid
NoUid == 0

-----------------------------------------------------------------------------
(* The metadata builder.                                                   *)

\* study_uid if study_uid else generate_uid() (lines 136, 144)
AlwaysFreshUid(given, fresh) == fresh
UidOrFresh(given, fresh) == IF given # NoUid THEN given ELSE fresh

\* no instance number: the None of generate_metadata's instance_number
NoInstanceNumber == 0

\* ds.InstanceNumber = instance_number (lines 150-151)
InstanceNumberField(instance_number) ==
    IF instance_number # NoInstanceNumber
    THEN "InstanceNumber" :> instance_number ELSE <<>>

\* the manufacturers of lines 158-165, the field strength in tenths of a tesla
Manufacturers ==
    << <<"SIEMENS", "Avanto", 15>>, <<"SIEMENS", "Skyra", 30>>,
       <<"GE MEDICAL SYSTEMS", "Signa HDxt", 15>>,
       <<"GE MEDICAL SYSTEMS", "Discovery MR750", 30>>,
       <<"PHILIPS", "Achieva", 15>>, <<"PHILIPS", "Ingenia", 30>> >>

\* the number of draws generate_metadata makes from module random
MetadataDraws == 16

\* generate_metadata (lines 103-198): the dataset, with the identifier
\* generator and the generator of module random as it leaves them.  uid0 is
\* the next identifier of generate_uid, rng the state of module random, now
\* the wall clock.  Durations and lengths are in thousandths.
generate_metadata(num_images, width, height, instance_number, s_uid, r_uid, uid0, rng, now) ==
    LET sop        == uid0
        impl       == uid0 + 1
        study      == UidOrFresh(s_uid, uid0 + 2)
        afterStudy == IF s_uid # NoUid THEN uid0 + 2 ELSE uid0 + 3
        series     == UidOrFresh(r_uid, afterStudy)
        afterAll   == IF r_uid # NoUid THEN afterStudy ELSE afterStudy + 1
        maker      == Choice(Manufacturers, Draw(rng, 8))
        thickness  == Uniform(1000, 5000, Draw(rng, 12))
        spacing    == Uniform(500, 2000, Draw(rng, 15))
    IN  [ds |->
            [ TransferSyntaxUID |-> "ExplicitVRLittleEndian",
              MediaStorageSOPClassUID |-> "1.2.840.10008.5.1.4.1.1.4",
              MediaStorageSOPInstanceUID |-> sop,
              ImplementationClassUID |-> impl,
              PatientName |-> <<"TEST^PATIENT^", RandInt(1000, 9999, Draw(rng, 0))>>,
              PatientID |-> <<"PID", RandInt(100000, 999999, Draw(rng, 1))>>,
              PatientBirthDate |-> << RandInt(1950, 2000, Draw(rng, 2)),
                                      RandInt(1, 12, Draw(rng, 3)),
                                      RandInt(1, 28, Draw(rng, 4)) >>,
              PatientSex |-> Choice(<<"M", "F">>, Draw(rng, 5)),
              StudyInstanceUID |-> study,
              StudyDate |-> now \div 86400,
              StudyTime |-> now % 86400,
              StudyID |-> <<"STD", RandInt(1000, 9999, Draw(rng, 6))>>,
              AccessionNumber |-> <<"ACC", RandInt(100000, 999999, Draw(rng, 7))>>,
              SeriesInstanceUID |-> series,
              SeriesNumber |-> 1,
              SeriesDescription |-> <<"Test MRI Series - ", num_images, " images">>,
              Modality |-> "MR",
              SOPClassUID |-> "1.2.840.10008.5.1.4.1.1.4",
              SOPInstanceUID |-> sop,
              Manufacturer |-> maker[1],
              ManufacturerModelName |-> maker[2],
              MagneticFieldStrength |-> maker[3],
              ImagingFrequency |-> maker[3] * 4258,
              EchoTime |-> Uniform(10000, 30000, Draw(rng, 9)),
              RepetitionTime |-> Uniform(400000, 800000, Draw(rng, 10)),
              FlipAngle |-> Uniform(60000, 90000, Draw(rng, 11)),
              SliceThickness |-> thickness,
              SpacingBetweenSlices |-> thickness + Uniform(0, 500, Draw(rng, 13)),
              SequenceName |-> Choice(<<"T1_MPRAGE", "T1_SE", "T2_FSE", "T2_FLAIR">>,
                                      Draw(rng, 14)),
              SamplesPerPixel |-> 1,
              PhotometricInterpretation |-> "MONOCHROME2",
              Rows |-> height,
              Columns |-> width,
              BitsAllocated |-> 16,
              BitsStored |-> 16,
              HighBit |-> 15,
              PixelRepresentation |-> 0,
              PixelSpacing |-> <<spacing, spacing>> ]
            @@ InstanceNumberField(instance_number),
         uid_next |-> afterAll,
         rng |-> Advance(rng, MetadataDraws)]

-----------------------------------------------------------------------------
(* The pixel synthesizer.                                                  *)

\* the seed argument left out: seed=None
NoSeed == [given |-> FALSE, value |-> 0]

\* if seed is not None: np.random.seed(seed) (lines 214-215, 236-237)
SeedIfGiven(seed, rng) == IF seed.given THEN SeedNp(seed.value, rng) ELSE rng

\* generate_pixel_data(num_images, width, height, seed) (lines 201-221): the
\* num_images * height * width draws of one np.random.randint, as the state
\* they start from and their number, and the state they leave
generate_pixel_data(num_images, width, height, seed, rng) ==
    LET start == SeedIfGiven(seed, rng) IN
    [pixels |-> [first |-> start, count |-> num_images * height * width],
     rng |-> Advance(start, num_images * height * width)]

\* generate_single_image(width, height, seed) (lines 224-242): the
\* height * width draws of np.random.randint
generate_single_image(width, height, seed, rng) ==
    LET start == SeedIfGiven(seed, rng) IN
    [pixels |-> [first |-> start, count |-> height * width],
     rng |-> Advance(start, height * width)]

-----------------------------------------------------------------------------
(* The run of main (lines 311-430).                                        *)

NoExit == -1

NoFile == [state |-> "absent", run |-> 0, sop |-> NoUid]
NoDicomdir == [state |-> "absent", run |-> 0, refs |-> {}]

\* the --total-size arguments of the runs: 5MB, 1MB, 1.5mb, 50KB, 0KB, 100TB,
\* invalid, 1MB followed by a newline, and 3MB with an Arabic-Indic 3
MainSizes ==
    { <<"5", "M", "B">>, <<"1", "M", "B">>, <<"1", ".", "5", "m", "b">>,
      <<"5", "0", "K", "B">>, <<"0", "K", "B">>, <<"1", "0", "0", "T", "B">>,
      <<"i", "n", "v", "a", "l", "i", "d">>, <<"1", "M", "B", "\n">>,
      <<"U+0663", "M", "B">> }

ArgSet ==
    {[num_images |-> n, total_size |-> s, seed |-> sd] :
        n \in 0..MaxImages, s \in MainSizes,
        sd \in {NoSeed} \cup {[given |-> TRUE, value |-> v] : v \in 0..MaxSeed}}

MainInit ==
    /\ pc = "args"
    /\ run = 1
    /\ args \in ArgSet
    /\ total_bytes = Bytes(0, 0)
    /\ geom = [width |-> 0, height |-> 0]
    /\ dir_exists \in BOOLEAN
    /\ files = [i \in 1..MaxImages |-> NoFile]
    /\ dicomdir = NoDicomdir
    /\ study_uid = NoUid
    /\ series_uid = NoUid
    /\ uid_next = 1
    /\ py_rng \in SystemRngs
    /\ np_rng \in SystemRngs
    /\ clock = 0
    /\ idx = 0
    /\ made = <<>>
    /\ prev_pixels = <<>>
    /\ fileset = {}
    /\ exit_code = NoExit
    /\ out = {}

\* no run of main: the state of the main variables while a function is
\* called on its own
MainIdle ==
    /\ pc = "idle"
    /\ run = 1
    /\ args = [num_images |-> 0, total_size |-> <<>>, seed |-> NoSeed]
    /\ total_bytes = Bytes(0, 0)
    /\ geom = [width |-> 0, height |-> 0]
    /\ dir_exists = FALSE
    /\ files = [i \in 1..MaxImages |-> NoFile]
    /\ dicomdir = NoDicomdir
    /\ study_uid = NoUid
    /\ series_uid = NoUid
    /\ uid_next = 1
    /\ py_rng \in SystemRngs
    /\ np_rng \in SystemRngs
    /\ clock = 0
    /\ idx = 0
    /\ made = <<>>
    /\ prev_pixels = <<>>
    /\ fileset = {}
    /\ exit_code = NoExit
    /\ out = {}

FnIdle ==
    /\ fn = "none"
    /\ fn_in = [size_str |-> <<>>]
    /\ fn_pc = "idle"
    /\ fn_out = NoResult

\* the process ends with the exit code, having reported msg
Exit(code, msg) ==
    /\ pc' = "done"
    /\ exit_code' = code
    /\ out' = out \cup {msg}

\* parse_arguments (lines 245-299, 314): parser.error exits with code 2
ParseArguments ==
    /\ pc = "args"
    /\ IF args.num_images <= 0
       THEN Exit(2, "usage: --num-images doit etre > 0")
       ELSE pc' = "size" /\ UNCHANGED <<exit_code, out>>
    /\ UNCHANGED <<fnvars, run, args, total_bytes, geom, dir_exists, files, dicomdir,
                   study_uid, series_uid, uid_next, py_rng, np_rng, clock, idx, made,
                   prev_pixels, fileset>>

\* lines 319-323 and the handler of lines 422-424
ParseTotalSize ==
    /\ pc = "size"
    /\ LET r == parse_size(args.total_size) IN
       IF ~r.ok
       THEN Exit(1, "Erreur: " \o r.msg) /\ UNCHANGED total_bytes
       ELSE IF BytesLeqZero(r.bytes)
       THEN Exit(1, "Erreur: La taille doit etre > 0") /\ total_bytes' = r.bytes
       ELSE /\ total_bytes' = r.bytes
            /\ pc' = "disk"
            /\ UNCHANGED <<exit_code, out>>
    /\ UNCHANGED <<fnvars, run, args, geom, dir_exists, files, dicomdir, study_uid,
                   series_uid, uid_next, py_rng, np_rng, clock, idx, made, prev_pixels,
                   fileset>>

\* lines 326-330: the file system has the space or has not
CheckDiskSpace ==
    /\ pc = "disk"
    /\ \E enough \in BOOLEAN :
          IF enough
          THEN pc' = "dims" /\ UNCHANGED <<exit_code, out>>
          ELSE Exit(1, "Erreur: Espace disque insuffisant")
    /\ UNCHANGED <<fnvars, run, args, total_bytes, geom, dir_exists, files, dicomdir,
                   study_uid, series_uid, uid_next, py_rng, np_rng, clock, idx, made,
                   prev_pixels, fileset>>

\* lines 333-341 and the handler of lines 422-424
CalculateDimensions ==
    /\ pc = "dims"
    /\ LET r == calculate_dimensions(total_bytes, args.num_images) IN
       IF ~r.ok
       THEN Exit(1, "Erreur: " \o r.msg) /\ UNCHANGED geom
       ELSE /\ geom' = [width |-> r.width, height |-> r.height]
            /\ pc' = "mkdir"
            /\ exit_code' = exit_code
            /\ out' = out \cup (IF r.warned THEN {"Attention: Taille limitee a 4 GB"} ELSE {})
    /\ UNCHANGED <<fnvars, run, args, total_bytes, dir_exists, files, dicomdir,
                   study_uid, series_uid, uid_next, py_rng, np_rng, clock, idx, made,
                   prev_pixels, fileset>>

\* lines 344-349 and the handler of lines 425-427: os.makedirs may fail
CreateOutputDir ==
    /\ pc = "mkdir"
    /\ IF dir_exists
       THEN /\ pc' = "series"
            /\ out' = out \cup {"Attention: Le dossier existe deja"}
            /\ UNCHANGED <<exit_code, dir_exists>>
       ELSE \E created \in BOOLEAN :
              IF created
              THEN /\ dir_exists' = TRUE
                   /\ pc' = "series"
                   /\ UNCHANGED <<exit_code, out>>
              ELSE Exit(1, "Erreur d'ecriture") /\ UNCHANGED dir_exists
    /\ UNCHANGED <<fnvars, run, args, total_bytes, geom, files, dicomdir, study_uid,
                   series_uid, uid_next, py_rng, np_rng, clock, idx, made, prev_pixels,
                   fileset>>

\* lines 352-362: the two shared UIDs, then the seeding of both generators
SetupSeries ==
    /\ pc = "series"
    /\ study_uid' = uid_next
    /\ series_uid' = uid_next + 1
    /\ uid_next' = uid_next + 2
    /\ np_rng' = IF args.seed.given THEN SeedNp(args.seed.value, np_rng) ELSE np_rng
    /\ py_rng' = IF args.seed.given THEN SeedPy(args.seed.value, py_rng) ELSE py_rng
    /\ idx' = 1
    /\ pc' = "loop"
    /\ UNCHANGED <<fnvars, run, args, total_bytes, geom, dir_exists, files, dicomdir,
                   clock, made, prev_pixels, fileset, exit_code, out>>

\* where main goes after ds.save_as of iteration i (lines 365, 385, 425-427):
\* an exception leaves the loop for the handler
SwallowWriteFailure(written, i, n) == IF i = n THEN "index" ELSE "loop"
AfterSave(written, i, n) ==
    IF ~written THEN "done" ELSE IF i = n THEN "index" ELSE "loop"

\* one iteration of the generation loop (lines 365-392): the metadata, the
\* pixels, and the file IMG<i>.dcm written, cut short or not opened
\* (total_size and the progress lines only feed the printed report)
GenerateInstance ==
    /\ pc = "loop"
    /\ \E now \in clock..MaxClock, outcome \in {"written", "partial", "unopened"} :
          LET m  == generate_metadata(args.num_images, geom.width, geom.height, idx,
                                      study_uid, series_uid, uid_next, py_rng, now)
              px == generate_single_image(geom.width, geom.height, NoSeed, np_rng)
              to == AfterSave(outcome = "written", idx, args.num_images)
          IN  /\ clock' = now
              /\ uid_next' = m.uid_next
              /\ py_rng' = m.rng
              /\ np_rng' = px.rng
              /\ made' = Append(made, [ds |-> m.ds, pixels |-> px.pixels])
              /\ files' = IF outcome = "unopened" THEN files
                          ELSE [files EXCEPT ![idx] =
                                   [state |-> IF outcome = "written" THEN "complete"
                                              ELSE "partial",
                                    run |-> run, sop |-> m.ds.SOPInstanceUID]]
              /\ pc' = to
              /\ idx' = IF to = "done" THEN idx ELSE idx + 1
              /\ exit_code' = IF to = "done" THEN 1 ELSE exit_code
              /\ out' = IF to = "done" THEN out \cup {"Erreur d'ecriture"} ELSE out
    /\ UNCHANGED <<fnvars, run, args, total_bytes, geom, dir_exists, dicomdir,
                   study_uid, series_uid, prev_pixels, fileset>>

\* the exit code after the handler of lines 416-418 (line 420)
IndexFailureFatal == 1
IndexFailureExit == 0

\* lines 397-420: the FileSet, fs.add of IMG0001..IMGn in order and fs.write;
\* any exception is reported and the run returns 0
BuildIndex ==
    /\ pc = "index"
    /\ \/ /\ fileset' = 1..args.num_images
          /\ dicomdir' = [state |-> "complete", run |-> run, refs |-> 1..args.num_images]
          /\ Exit(0, "DICOMDIR cree")
       \/ \E j \in 1..args.num_images :
             /\ fileset' = 1..(j - 1)
             /\ dicomdir' = dicomdir
             /\ Exit(IndexFailureExit, "Attention: Erreur lors de la creation du DICOMDIR")
       \/ \E cut \in BOOLEAN :
             /\ fileset' = 1..args.num_images
             /\ dicomdir' = IF cut THEN [state |-> "partial", run |-> run, refs |-> {}]
                            ELSE dicomdir
             /\ Exit(IndexFailureExit, "Attention: Erreur lors de la creation du DICOMDIR")
    /\ UNCHANGED <<fnvars, run, args, total_bytes, geom, dir_exists, files, study_uid,
                   series_uid, uid_next, py_rng, np_rng, clock, idx, made, prev_pixels>>

\* the script is run a second time with the same arguments and the same
\* output directory: a new process, its generators seeded from the system
Rerun ==
    /\ pc = "done"
    /\ run = 1
    /\ run' = 2
    /\ pc' = "args"
    /\ prev_pixels' = [k \in 1..Len(made) |-> made[k].pixels]
    /\ made' = <<>>
    /\ total_bytes' = Bytes(0, 0)
    /\ geom' = [width |-> 0, height |-> 0]
    /\ study_uid' = NoUid
    /\ series_uid' = NoUid
    /\ py_rng' \in SystemRngs
    /\ np_rng' \in SystemRngs
    /\ idx' = 0
    /\ fileset' = {}
    /\ exit_code' = NoExit
    /\ out' = {}
    /\ UNCHANGED <<fnvars, args, dir_exists, files, dicomdir, uid_next, clock>>

MainNext ==
    \/ ParseArguments
    \/ ParseTotalSize
    \/ CheckDiskSpace
    \/ CalculateDimensions
    \/ CreateOutputDir
    \/ SetupSeries
    \/ GenerateInstance
    \/ BuildIndex

Init == FnIdle /\ MainInit

Next == MainNext

\* one run of main
Spec == Init /\ [][Next]_vars

RerunNext == MainNext \/ Rerun

\* two runs of main with the same arguments, one after the other
SpecRerun == Init /\ [][RerunNext]_vars

-----------------------------------------------------------------------------
(* The size parser on its own.                                             *)

ParseInit ==
    /\ fn = "parse_size"
    /\ fn_in \in {[size_str |-> s] : s \in SizeStrings}
    /\ fn_pc = "call"
    /\ fn_out = NoResult
    /\ MainIdle

CallParseSize ==
    /\ fn = "parse_size"
    /\ fn_pc = "call"
    /\ fn_out' = parse_size(fn_in.size_str)
    /\ fn_pc' = "return"
    /\ UNCHANGED <<fn, fn_in, mainvars>>

ParseNext == CallParseSize

SpecParse == ParseInit /\ [][ParseNext]_vars

-----------------------------------------------------------------------------
(* The dimension solver on its own.                                        *)

Rems == {0, 1, KiB - 1}

\* budgets one KiB below, at and above the budget that first affords n frames
\* of side 128 * j: 100 KiB + n * (128 j)^2 * 2 bytes = (100 + 32 n j^2) KiB
BoundaryBudgets(n) ==
    {Bytes(MetadataOverheadKiB + 32 * n * j * j + d, r) :
        j \in 0..MaxSideTiles, d \in {-1, 0, 1}, r \in Rems}

\* positive budgets below the overhead
SmallBudgets == {Bytes(k, r) : k \in {0, 1, 50, 99}, r \in Rems} \ {Bytes(0, 0)}

\* budgets around the clamp of line 78, 4.5 GB, 8 GB and 1 TB
HugeBudgets ==
    {Bytes(U32MaxKiB - MarginMiB * KiB + MetadataOverheadKiB + d, r) :
        d \in {-1, 0, 1}, r \in Rems}
        \cup {Bytes(U32MaxKiB + MetadataOverheadKiB, KiB - 1), Bytes(4718592, 0),
              Bytes(8 * KiB * KiB, 0), Bytes(KiB * KiB * KiB, 0)}

\* the budgets of the repository's tests: 100 MB, 50 MB, 5 MB, 1 MB
TestBudgets == {Bytes(100 * KiB, 0), Bytes(50 * KiB, 0), Bytes(5 * KiB, 0), Bytes(KiB, 0)}

FrameCounts == (1..MaxFrames) \cup {5, 10, 120}

DimInputs ==
    {[total_size_bytes |-> b, num_images |-> n] :
        n \in FrameCounts,
        b \in SmallBudgets \cup HugeBudgets \cup TestBudgets
              \cup UNION {BoundaryBudgets(m) : m \in FrameCounts}}

DimInit ==
    /\ fn = "calculate_dimensions"
    /\ fn_in \in DimInputs
    /\ fn_pc = "call"
    /\ fn_out = NoResult
    /\ MainIdle

CallCalculateDimensions ==
    /\ fn = "calculate_dimensions"
    /\ fn_pc = "call"
    /\ fn_out' = calculate_dimensions(fn_in.total_size_bytes, fn_in.num_images)
    /\ fn_pc' = "return"
    /\ UNCHANGED <<fn, fn_in, mainvars>>

DimNext == CallCalculateDimensions

SpecDim == DimInit /\ [][DimNext]_vars

-----------------------------------------------------------------------------
(* The pixel synthesizers called on their own, one call after another on   *)
(* numpy's global generator.                                               *)

PixelSides == {1, 2}

PixelSeeds == {NoSeed} \cup {[given |-> TRUE, value |-> v] : v \in 0..MaxSeed}

PixelInit ==
    /\ fn = "none"
    /\ fn_in = [size_str |-> <<>>]
    /\ fn_pc = "call"
    /\ fn_out = NoResult
    /\ MainIdle

\* pixel_data = generate_pixel_data(num_images, width, height, seed)
CallGeneratePixelData ==
    /\ fn \in {"none", "generate_pixel_data", "generate_single_image"}
    /\ fn_pc \in {"call", "return"}
    /\ np_rng.drawn < MaxDrawn
    /\ \E n \in 1..MaxImages, w \in PixelSides, h \in PixelSides, sd \in PixelSeeds :
          LET r == generate_pixel_data(n, w, h, sd, np_rng) IN
          /\ fn' = "generate_pixel_data"
          /\ fn_in' = [num_images |-> n, width |-> w, height |-> h, seed |-> sd]
          /\ fn_out' = [ok |-> TRUE, pixels |-> r.pixels]
          /\ np_rng' = r.rng
    /\ fn_pc' = "return"
    /\ UNCHANGED <<pc, run, args, total_bytes, geom, dir_exists, files, dicomdir,
                   study_uid, series_uid, uid_next, py_rng, clock, idx, made,
                   prev_pixels, fileset, exit_code, out>>

\* pixel_data = generate_single_image(width, height, seed)
CallGenerateSingleImage ==
    /\ fn \in {"none", "generate_pixel_data", "generate_single_image"}
    /\ fn_pc \in {"call", "return"}
    /\ np_rng.drawn < MaxDrawn
    /\ \E w \in PixelSides, h \in PixelSides, sd \in PixelSeeds :
          LET r == generate_single_image(w, h, sd, np_rng) IN
          /\ fn' = "generate_single_image"
          /\ fn_in' = [width |-> w, height |-> h, seed |-> sd]
          /\ fn_out' = [ok |-> TRUE, pixels |-> r.pixels]
          /\ np_rng' = r.rng
    /\ fn_pc' = "return"
    /\ UNCHANGED <<pc, run, args, total_bytes, geom, dir_exists, files, dicomdir,
                   study_uid, series_uid, uid_next, py_rng, clock, idx, made,
                   prev_pixels, fileset, exit_code, out>>

PixelNext == CallGeneratePixelData \/ CallGenerateSingleImage

SpecPixels == PixelInit /\ [][PixelNext]_vars

-----------------------------------------------------------------------------
(* Claims about the dimension solver, under SpecDim.                       *)

DimReturned == fn = "calculate_dimensions" /\ fn_pc = "return" /\ fn_out.ok

\* the byte count of n frames of p 16-bit pixels, p * 2 * n
PixelBytes(p, n) ==
    Bytes((p \div 512) * n + ((p % 512) * 2 * n) \div KiB, ((p % 512) * 2 * n) % KiB)

\* B - 100 KiB for the budget B of the call
BudgetLessOverhead == Bytes(fn_in.total_size_bytes.kib - 100, fn_in.total_size_bytes.rem)

\* the budget affords n frames of the minimum side: B - 100 KiB >= 128 * 128 * 2 * n
AffordsMinimum == BudgetLessOverhead.kib >= 32 * fn_in.num_images

NeverOvershoots ==
    LeqBytes(PixelBytes(fn_out.width * fn_out.height, fn_in.num_images), BudgetLessOverhead)

\* C1, as claimed: for every positive budget B and frame count n >= 1 the pair
\* (w, h) that calculate_dimensions returns satisfies w * h * n * 2 <= B - 102400,
\* also when the result is raised to the 128 minimum.
C1_NeverOvershootsAnyBudget == DimReturned => NeverOvershoots

\* C1, as amended: for every budget B >= 102400 and n >= 1, when the budget
\* affords n frames of the minimum side, B - 102400 >= 128 * 128 * 2 * n, the
\* returned pair satisfies w * h * n * 2 <= B - 102400; otherwise the pair is
\* (128, 128) and w * h * n * 2 exceeds B - 102400.
C1_NeverOvershootsAboveMinimum ==
    (DimReturned /\ fn_in.total_size_bytes.kib >= 100) =>
        /\ AffordsMinimum => NeverOvershoots
        /\ ~AffordsMinimum =>
              /\ fn_out.width = 128 /\ fn_out.height = 128
              /\ ~NeverOvershoots

\* C1's case: a side above the minimum that the rounding of lines 92-95 lowered
C1_Witness ==
    /\ DimReturned
    /\ AffordsMinimum
    /\ fn_out.width >= 256
    /\ IntSqrt(PixelsPerFrame(fn_in.total_size_bytes, fn_in.num_images)) > fn_out.width

\* C2, as claimed: for every positive budget, also one below the 100 KiB
\* overhead, and every n >= 1, calculate_dimensions returns (w, h) with w = h,
\* w >= 128 and w a multiple of 256 or of 128, and does not fail.
C2_ReturnsSquareMultiple ==
    (fn = "calculate_dimensions" /\ fn_pc = "return") =>
        /\ fn_out.ok
        /\ fn_out.width = fn_out.height
        /\ fn_out.width >= 128
        /\ (fn_out.width % 256 = 0 \/ fn_out.width % 128 = 0)

\* 2^32 - 1 - 10 MiB = 4284481535 = 1024 * 4184063 + 1023
PixelCeiling == Bytes(4184063, 1023)

\* C6: for every budget and n >= 1 the returned geometry has a per-frame pixel
\* byte size w * h * 2 of at most 2^32 - 1 - 10 MiB.
C6_FrameBelowCeiling ==
    DimReturned => LeqBytes(PixelBytes(fn_out.width * fn_out.height, 1), PixelCeiling)

\* C6's case: a budget whose available bytes exceed the ceiling, for one frame
C6_Witness ==
    /\ DimReturned
    /\ fn_in.num_images = 1
    /\ GreaterBytes(BudgetLessOverhead, PixelCeiling)
    /\ fn_out.warned
    /\ fn_out.width = 46080

\* expected_per_frame of the test of the large study: the pixels of one frame
\* when the budget less the overhead is not clamped, ((B - 100 KiB) // 2) // n
C13_ExpectedPerFrame ==
    LET k == fn_in.total_size_bytes.kib - 100
        n == fn_in.num_images
    IN  512 * (k \div n) + (512 * (k % n) + fn_in.total_size_bytes.rem \div 2) \div n

C13_Abs(x) == IF x < 0 THEN -x ELSE x

\* the solver returned for the large study of the test, 4.5 GB in 120 frames
C13_LargeStudy ==
    /\ DimReturned
    /\ fn_in.total_size_bytes = Bytes(4718592, 0)
    /\ fn_in.num_images = 120

\* C13: for the large study the side is at least 512 and the pixels of the
\* returned frame are within 10 % of the expected pixels per frame E:
\* |w * h - E| / E < 0.1.
C13_CloseToTarget ==
    C13_LargeStudy =>
        /\ fn_out.width >= 512
        /\ 10 * C13_Abs(fn_out.width * fn_out.height - C13_ExpectedPerFrame)
              < C13_ExpectedPerFrame

\* the budget covers the 100 KiB overhead
C14_Covers(b) == b.kib >= 100

\* the budget b less d bytes
C14_Less(b, d) ==
    IF b.rem >= d.rem THEN Bytes(b.kib - d.kib, b.rem - d.rem)
    ELSE Bytes(b.kib - d.kib - 1, b.rem + 1024 - d.rem)

\* the steps by which a budget is lowered: 1 byte, 1 KiB, 32 KiB, 1 MiB,
\* 31 MiB and 1 byte, 1 GiB
C14_Steps ==
    {Bytes(0, 1), Bytes(1, 0), Bytes(32, 0), Bytes(1024, 0), Bytes(31 * 1024, 1),
     Bytes(1024 * 1024, 0)}

\* the sides returned for the lower budgets that cover the overhead, at the
\* frame count of the call
C14_SmallerBudget ==
    {calculate_dimensions(C14_Less(fn_in.total_size_bytes, d), fn_in.num_images).width :
        d \in {c \in C14_Steps : C14_Covers(C14_Less(fn_in.total_size_bytes, c))}}

\* the sides returned for more frames, at the budget of the call
C14_MoreFrames ==
    {calculate_dimensions(fn_in.total_size_bytes, n).width :
        n \in {k \in FrameCounts : k > fn_in.num_images}}

\* C14: the side never shrinks when the budget grows at a fixed frame count
\* and never grows when the frame count grows at a fixed budget, budgets
\* covering the overhead.
C14_Monotone ==
    (DimReturned /\ C14_Covers(fn_in.total_size_bytes)) =>
        /\ \A side \in C14_SmallerBudget : side <= fn_out.width
        /\ \A side \in C14_MoreFrames : side <= fn_out.width

\* C14's case: a clamped budget, a smaller budget with a strictly smaller
\* side above the minimum, and more frames with a strictly smaller side
C14_Witness ==
    /\ DimReturned
    /\ C14_Covers(fn_in.total_size_bytes)
    /\ fn_out.warned
    /\ \E side \in C14_SmallerBudget : 128 < side /\ side < fn_out.width
    /\ \E side \in C14_MoreFrames : side < fn_out.width

-----------------------------------------------------------------------------
(* Claims about the size parser, under SpecParse.                          *)

\* the power of 1024 a two-letter unit names in any case, 0 for no unit
C7_UnitExp(u) ==
    IF Len(u) # 2 \/ u[2] \notin {"b", "B"} THEN 0
    ELSE CASE u[1] \in {"k", "K"} -> 1
           [] u[1] \in {"m", "M"} -> 2
           [] u[1] \in {"g", "G"} -> 3
           [] OTHER -> 0

C7_Num(s) == SubSeq(s, 1, Len(s) - 2)
C7_Unit(s) == SubSeq(s, Len(s) - 1, Len(s))

\* s is <decimal number><KB|MB|GB>, the unit in any case
C7_WellFormed(s) ==
    /\ Len(s) >= 3
    /\ C7_UnitExp(C7_Unit(s)) > 0
    /\ IsNumber(C7_Num(s))

C7_IntPart(s) ==
    LET d == DotPos(C7_Num(s)) IN
    DigitsValue(IF d = 0 THEN C7_Num(s) ELSE SubSeq(C7_Num(s), 1, d - 1))

C7_FracDigits(s) ==
    LET d == DotPos(C7_Num(s)) IN
    IF d = 0 THEN <<>> ELSE SubSeq(C7_Num(s), d + 1, Len(C7_Num(s)))

RECURSIVE C7_PowKiB(_)
C7_PowKiB(j) == IF j = 0 THEN 1 ELSE 1024 * C7_PowKiB(j - 1)

\* how far the exact product lies above the byte count b, in units of
\* 1 / 10^m: with x = (ip + fp / 10^m) * 1024^e, the number (x - b) * 10^m,
\* worked out from the base-1024 digits of b
C7_Gap(b, ip, fp, m, e) ==
    LET den == Pow10(m)
        kf  == b.kib - ip * C7_PowKiB(e - 1)
    IN  CASE e = 1 -> (fp - kf * den) * 1024 - b.rem * den
          [] e = 2 -> (fp * 1024 - kf * den) * 1024 - b.rem * den
          [] e = 3 -> ((fp * 1024 - (kf \div 1024) * den) * 1024
                          - (kf % 1024) * den) * 1024 - b.rem * den

\* b = floor((ip + fp / 10^m) * 1024^e): 0 <= x - b < 1
C7_IsFloor(b, ip, fp, m, e) ==
    /\ b.rem \in 0..1023
    /\ C7_Gap(b, ip, fp, m, e) >= 0
    /\ C7_Gap(b, ip, fp, m, e) < Pow10(m)

RECURSIVE C7_Halve(_, _)
\* floor(x / 2^h)
C7_Halve(x, h) == IF h = 0 \/ x = 0 THEN x ELSE C7_Halve(x \div 2, h - 1)

\* b = floor(d * 1024^e) for the double d nearest to ip + fp / 10^m: with h
\* the number of bits by which the unit of d's last place, times 1024^e, is
\* below 1/2, b = floor(x + 2^-h), that is -2^-h <= x - b < 1 - 2^-h
C7_IsFloatFloor(b, ip, fp, m, e) ==
    LET g == C7_Gap(b, ip, fp, m, e)
        h == 53 - BinaryExponent(ip, fp, m) - 10 * e
        q == C7_Halve(Pow10(m), h)
    IN  /\ b.rem \in 0..1023
        /\ \/ g >= 0 /\ Pow10(m) - g > q
           \/ g < 0 /\ -g <= q

\* s with its unit in capitals
C7_Capitals(s) ==
    C7_Num(s) \o (CASE C7_UnitExp(C7_Unit(s)) = 1 -> <<"K", "B">>
                    [] C7_UnitExp(C7_Unit(s)) = 2 -> <<"M", "B">>
                    [] C7_UnitExp(C7_Unit(s)) = 3 -> <<"G", "B">>)

\* the parser returned for a string <decimal number><KB|MB|GB>
C7_Parsed ==
    /\ fn = "parse_size" /\ fn_pc = "return"
    /\ C7_WellFormed(fn_in.size_str)

\* C7, as claimed: for every string <decimal number><KB|MB|GB>, the unit in
\* any case, parse_size returns floor(magnitude * multiplier(unit)) with the
\* multipliers 1024, 1024^2, 1024^3, and the same as for the string in
\* capitals; '100KB' gives 102400 and '4.5GB' gives 4831838208.
C7_ParsesToFloor ==
    C7_Parsed =>
        LET s == fn_in.size_str IN
        /\ fn_out.ok
        /\ C7_IsFloor(fn_out.bytes, C7_IntPart(s), DigitsValue(C7_FracDigits(s)),
                      Len(C7_FracDigits(s)), C7_UnitExp(C7_Unit(s)))
        /\ fn_out = parse_size(C7_Capitals(s))
        /\ (s = <<"1", "0", "0", "K", "B">> => fn_out.bytes = Bytes(100, 0))
        /\ (s = <<"4", ".", "5", "G", "B">> => fn_out.bytes = Bytes(4718592, 0))

\* the byte count of the string is below 2^41: the integer part of the
\* magnitude is below 2^31 for KB, 2^21 for MB and 2^11 for GB
C7_BelowTwoTiB(s) ==
    C7_IntPart(s) <= (CASE C7_UnitExp(C7_Unit(s)) = 1 -> 2147483647
                        [] C7_UnitExp(C7_Unit(s)) = 2 -> 2097151
                        [] C7_UnitExp(C7_Unit(s)) = 3 -> 2047)

\* C7, amended: for a string whose byte count is below 2^41, parse_size
\* returns floor(d * multiplier(unit)) for the double d nearest to the decimal
\* number, which is the floor of the exact product or, where d lies above the
\* decimal and its product is an integer, one more; and the same as for the
\* string in capitals; '100KB' gives 102400 and '4.5GB' gives 4831838208.
C7_ParsesToFloatFloor ==
    (C7_Parsed /\ C7_BelowTwoTiB(fn_in.size_str)) =>
        LET s  == fn_in.size_str
            ip == C7_IntPart(s)
            fp == DigitsValue(C7_FracDigits(s))
            m  == Len(C7_FracDigits(s))
            e  == C7_UnitExp(C7_Unit(s))
        IN  /\ fn_out.ok
            /\ (ip > 0 \/ fp > 0) => C7_IsFloatFloor(fn_out.bytes, ip, fp, m, e)
            /\ (ip = 0 /\ fp = 0) => fn_out.bytes = Bytes(0, 0)
            /\ C7_Gap(fn_out.bytes, ip, fp, m, e) \in (1 - Pow10(m))..(Pow10(m) - 1)
            /\ fn_out = parse_size(C7_Capitals(s))
            /\ (s = <<"1", "0", "0", "K", "B">> => fn_out.bytes = Bytes(100, 0))
            /\ (s = <<"4", ".", "5", "G", "B">> => fn_out.bytes = Bytes(4718592, 0))

\* C7's case: a fractional size with a unit not in capitals whose double
\* lies above the decimal, parsed to one byte more than the floor
C7_Witness ==
    /\ C7_Parsed
    /\ C7_Unit(fn_in.size_str) \notin Units
    /\ Len(C7_FracDigits(fn_in.size_str)) > 0
    /\ fn_out.ok
    /\ C7_Gap(fn_out.bytes, C7_IntPart(fn_in.size_str),
              DigitsValue(C7_FracDigits(fn_in.size_str)),
              Len(C7_FracDigits(fn_in.size_str)),
              C7_UnitExp(C7_Unit(fn_in.size_str))) < 0

-----------------------------------------------------------------------------
(* Claims about a run of main, under Spec.                                 *)

Instances == 1..Len(made)

\* C3: the instances a run generates all carry the study_uid and the
\* series_uid generated before the loop, any two of them differ in their
\* SOPInstanceUID, the k-th generated instance has InstanceNumber k, and the
\* loop ends with n instances generated.
C3_SeriesLinkage ==
    /\ \A k \in Instances :
          /\ made[k].ds.StudyInstanceUID = study_uid
          /\ made[k].ds.SeriesInstanceUID = series_uid
          /\ made[k].ds.StudyInstanceUID # made[k].ds.SeriesInstanceUID
          /\ made[k].ds.InstanceNumber = k
          /\ \A j \in Instances : j # k =>
                made[j].ds.SOPInstanceUID # made[k].ds.SOPInstanceUID
    /\ pc = "index" => Len(made) = args.num_images

\* C3's case: the generation loop has produced instances 1..n, n >= 2
C3_Witness == pc = "index" /\ Len(made) >= 2 /\ Len(made) = args.num_images

\* the StudyContext fields C4 names
C4_Context(ds) ==
    << ds.PatientName, ds.PatientID, ds.PatientBirthDate, ds.PatientSex, ds.StudyID,
       ds.AccessionNumber, ds.Manufacturer, ds.ManufacturerModelName,
       ds.MagneticFieldStrength, ds.EchoTime, ds.RepetitionTime, ds.FlipAngle,
       ds.SliceThickness, ds.SpacingBetweenSlices, ds.SequenceName, ds.PixelSpacing >>

\* C4, as claimed: any two instances of one run have equal patient name,
\* patient ID, birth date, sex, study ID, accession number, manufacturer,
\* model, field strength, echo time, repetition time, flip angle, slice
\* thickness, slice spacing, sequence name and pixel spacing.
C4_SharedStudyContext ==
    \A j, k \in Instances : C4_Context(made[j].ds) = C4_Context(made[k].ds)

\* the size string is <number>(KB|MB|GB), the number in the digits 0..9 and
\* the unit in any case
C8_MatchesForm(s) ==
    /\ C7_WellFormed(s)
    /\ \A i \in 1..Len(s) : s[i] \notin UnicodeDigits

\* C8, as claimed: a run given a size string that is not <number>(KB|MB|GB)
\* never gets past the parsing of the size: it ends with a non-zero exit code,
\* the ValueError of parse_size reported, and no directory, instance file or
\* DICOMDIR is written.
C8_MalformedSizeRejected ==
    (pc # "idle" /\ ~C8_MatchesForm(args.total_size)) =>
        /\ pc \in {"args", "size", "done"}
        /\ pc = "done" => exit_code # 0
        /\ (pc = "done" /\ args.num_images > 0) => "Erreur: Format invalide" \in out
        /\ \A i \in 1..MaxImages : files[i] = NoFile
        /\ dicomdir = NoDicomdir

\* the file IMG<i> holds the whole of the i-th instance of this run
WrittenByRun(i) ==
    /\ files[i].state = "complete"
    /\ files[i].run = run
    /\ i \in Instances
    /\ files[i].sop = made[i].ds.SOPInstanceUID

\* C9: the index build starts only once IMG0001..IMGn are all completely
\* written by this run, the index holds nothing but these n files, and a run
\* in which an instance write failed builds no index.
C9_IndexAfterAllWritten ==
    /\ (pc = "index" \/ fileset # {} \/ dicomdir.run = run) =>
          \A i \in 1..args.num_images : WrittenByRun(i)
    /\ fileset \subseteq 1..args.num_images
    /\ dicomdir.state = "complete" => dicomdir.refs = 1..args.num_images
    /\ (\E i \in 1..MaxImages : files[i].run = run /\ files[i].state = "partial") =>
          /\ pc = "done"
          /\ exit_code = 1
          /\ fileset = {}
          /\ dicomdir.run # run

\* C9's case: the DICOMDIR of n >= 2 instance files is written
C9_Witness ==
    /\ pc = "done"
    /\ args.num_images >= 2
    /\ dicomdir = [state |-> "complete", run |-> run, refs |-> 1..args.num_images]
    /\ \A i \in 1..args.num_images : WrittenByRun(i)

\* the run got past the generation loop and is over
C10_IndexPhaseOver ==
    /\ pc = "done"
    /\ args.num_images >= 1
    /\ Len(made) = args.num_images
    /\ "Erreur d'ecriture" \notin out

\* C10: when the DICOMDIR could not be built or written after the n instance
\* files were, the failure is reported, the exit code is 0 and the n instance
\* files are all still there, complete.
C10_IndexFailureNonFatal ==
    (C10_IndexPhaseOver /\ ~(dicomdir.state = "complete" /\ dicomdir.run = run)) =>
        /\ "Attention: Erreur lors de la creation du DICOMDIR" \in out
        /\ exit_code = 0
        /\ \A i \in 1..args.num_images : WrittenByRun(i)

\* C10's case: fs.write failed and left a cut DICOMDIR after two instance files
C10_Witness ==
    /\ C10_IndexPhaseOver
    /\ args.num_images >= 2
    /\ dicomdir.state = "partial"
    /\ fileset = 1..args.num_images
    /\ exit_code = 0

\* the run is over and instance k was generated in it but its file was not
\* written whole, none before it having failed
C11_FirstFailure(k) ==
    /\ pc = "done"
    /\ k \in Instances
    /\ ~WrittenByRun(k)
    /\ \A i \in 1..(k - 1) : WrittenByRun(i)

\* C11: a failed write of instance k ends that instance only: the run went on
\* to generate the instances k+1..n, so all n were generated, and the k-1
\* files written before the failure are kept, complete.
C11_FailureAbortsInstanceOnly ==
    \A k \in 1..MaxImages : C11_FirstFailure(k) =>
        /\ Len(made) = args.num_images
        /\ \A i \in 1..(k - 1) : files[i].state = "complete" /\ files[i].run = run

\* the metadata builder was called for an instance of a run of n >= 1 frames
C12_Built(k) == k \in Instances /\ args.num_images >= 1

\* C12: the dataset built for each instance of a run of n frames carries
\* NumberOfFrames = n, with Rows = height, Columns = width and
\* BitsAllocated = 16.
C12_CarriesNumberOfFrames ==
    \A k \in 1..MaxImages : C12_Built(k) =>
        /\ made[k].ds.Rows = geom.height
        /\ made[k].ds.Columns = geom.width
        /\ made[k].ds.BitsAllocated = 16
        /\ "NumberOfFrames" \in DOMAIN made[k].ds
        /\ made[k].ds.NumberOfFrames = args.num_images

-----------------------------------------------------------------------------
(* Claims about two runs with the same arguments, under SpecRerun.         *)

\* the k-th block of width * height draws of the generator seeded with seed
C5_SeededBlock(seed, k) ==
    [first |-> [origin |-> seed, drawn |-> (k - 1) * geom.width * geom.height],
     count |-> geom.width * geom.height]

\* C5: in a seeded run the pixels of frame k are the k-th block of the
\* seeded stream, whatever the metadata builder drew in between, and a second
\* run with the same seed, frame count and size repeats the pixels of every
\* frame of the first.
C5_SeededPixelsRepeat ==
    args.seed.given =>
        /\ \A k \in Instances : made[k].pixels = C5_SeededBlock(args.seed.value, k)
        /\ run = 2 =>
              \A k \in Instances : k <= Len(prev_pixels) =>
                  made[k].pixels = prev_pixels[k]

\* C5's case: two seeded runs of two frames each, the second started from
\* another state of the generator than the seed's
C5_Witness ==
    /\ run = 2
    /\ args.seed.given
    /\ pc = "done" /\ exit_code = 0
    /\ Len(made) = 2 /\ Len(prev_pixels) = 2
    /\ made[2].pixels.first # made[1].pixels.first

=============================================================================
